---------------------------- MODULE Spec2Model ----------------------------
(***************************************************************************)
(* The corhyn task store (src/corhyn/cli.py): the four SQLite tables       *)
(* created by init_db and the commands that read and write them.  Every    *)
(* command opens its own connection, runs its statements and commits at    *)
(* the end; a statement that raises leaves the command before the commit,  *)
(* so nothing the command wrote is persisted.  One action is one command.  *)
(***************************************************************************)
EXTENDS Integers, Sequences, FiniteSets, TLC

VARIABLES
    tasks,            \* table tasks: id -> row
    tags,             \* table tags: id -> row
    task_tags,        \* table task_tags: set of <<task_id, tag_id>>
    time_entries,     \* table time_entries: id -> row
    sqlite_sequence,  \* AUTOINCREMENT counters, one per table
    now,              \* datetime.now(), in whole seconds
    last,             \* the last command: its name, arguments, outcome, output
    is_running,       \* PomodoroTimer.is_running
    current_session,  \* PomodoroTimer.current_session
    work_duration,    \* PomodoroTimer.work_duration, in minutes
    pc,               \* where the thread of the pomodoro command stands
    progress,         \* the progress bar of _show_progress: total, completed
    phases,           \* the phases begun so far in the current block of eight
    stop_called       \* another thread has called PomodoroTimer.stop()

timer == <<is_running, current_session, work_duration, pc, progress, phases,
           stop_called>>

vars == <<tasks, tags, task_tags, time_entries, sqlite_sequence, now, last,
          is_running, current_session, work_duration, pc, progress, phases,
          stop_called>>

store == <<tasks, tags, task_tags, time_entries, sqlite_sequence>>

---------------------------------------------------------------------------
(* Bounds of the model.                                                    *)

MaxTasks == 2       \* rows ever inserted into tasks
MaxTags == 3        \* rows ever inserted into tags
MaxEntries == 2     \* rows ever inserted into time_entries
MaxTime == 2        \* the clock stops advancing here
MaxRequest == 2     \* names in a tag filter of list
MaxDay == 2         \* days the clock runs on after the first
MaxMinutes == 2     \* the longest --minutes given to pomodoro

---------------------------------------------------------------------------
(* SQL values.  NULL (Python None) is the empty set and a value v is {v},  *)
(* so that a nullable integer column and a nullable text column compare    *)
(* with NULL alike.                                                        *)

NULL == {}

Some(v) == {v}

Val(x) == CHOOSE v \in x : TRUE

(* Python truthiness of an Optional[str]: None and "" are both false.      *)
Truthy(x) == x # NULL /\ x # Some("")

(* The columns init_db gives each table.                                   *)
TasksColumns ==
    {"id", "title", "description", "priority", "deadline", "status", "created_at"}

TimeEntriesColumns == {"id", "task_id", "start_time", "duration", "notes"}

TagsColumns == {"id", "name", "color", "created_at"}

TaskTagsColumns == {"task_id", "tag_id"}

(* sqlite3 prepares a statement before it runs it: a statement that names  *)
(* a column its table does not have raises OperationalError, whatever the  *)
(* rows are.                                                               *)
NoSuchColumn(used, columns) == ~ (used \subseteq columns)

(* The rowid SQLite gives without AUTOINCREMENT: one more than the largest *)
(* rowid now in the table.                                                 *)
NextRowid(table) ==
    LET rows == IF table = "tasks" THEN DOMAIN tasks
                ELSE IF table = "tags" THEN DOMAIN tags
                ELSE DOMAIN time_entries
    IN  IF rows = {} THEN 1
        ELSE (CHOOSE m \in rows : \A r \in rows : r <= m) + 1

(* INTEGER PRIMARY KEY AUTOINCREMENT: one more than the largest id the     *)
(* table ever held.                                                        *)
NextId(table) == sqlite_sequence[table] + 1

Range(s) == {s[i] : i \in 1..Len(s)}

(* All sequences over S of length 1..n.                                    *)
SeqsUpTo(S, n) == UNION {[1..k -> S] : k \in 1..n}

---------------------------------------------------------------------------
(* What a command reports.                                                 *)

Outcome(op, args, result, rows) ==
    [op |-> op, args |-> args, result |-> result, rows |-> rows]

(* A command that ends without a commit: a printed error and return, or an *)
(* exception that leaves the function.                                     *)
Fails(op, args, result) ==
    /\ last' = Outcome(op, args, result, <<>>)
    /\ UNCHANGED store

PRIORITIES == {"low", "medium", "high"}

STATUSES == {"pending", "completed"}

---------------------------------------------------------------------------
(* PomodoroTimer.__init__ (src/corhyn/pomodoro.py).  Durations are minutes.*)

total_sessions == 4

short_break_duration == 5

long_break_duration == 15

NoProgress == [total |-> 0, completed |-> 0]

TimerInit ==
    /\ is_running = FALSE
    /\ current_session = 0
    /\ work_duration = 25
    /\ pc = "idle"
    /\ progress = NoProgress
    /\ phases = <<>>
    /\ stop_called = FALSE

(* init_db on a fresh file: four empty tables; no timer has run.           *)

Init ==
    /\ TimerInit
    /\ tasks = <<>>
    /\ tags = <<>>
    /\ task_tags = {}
    /\ time_entries = <<>>
    /\ sqlite_sequence = [tasks |-> 0, tags |-> 0, time_entries |-> 0]
    /\ now = 0
    /\ last = Outcome("init_db", <<>>, "ok", <<>>)

(* Time passes between two commands.                                       *)
Tick ==
    /\ now < MaxTime
    /\ now' = now + 1
    /\ UNCHANGED <<store, last, timer>>

SecondsPerDay == 86400

(* A day passes between two commands.                                      *)
NextDay ==
    /\ now \div SecondsPerDay < MaxDay
    /\ now' = now + SecondsPerDay
    /\ UNCHANGED <<store, last, timer>>

---------------------------------------------------------------------------
(* A comma-separated option value is kept as the sequence str.split(',')   *)
(* gives: "x,y" is <<"x", "y">> and "" is <<"">>.  No option given (None)  *)
(* is the empty sequence, which split never returns.                       *)

None == <<>>

(* `if tags:` -- neither None nor the empty string.                        *)
Given(value) == value # None /\ value # <<"">>

(* str.strip() on the names the model draws.                               *)
Strip(s) ==
    CASE s = " x" -> "x"
      [] s = "y " -> "y"
      [] s = " " -> ""
      [] OTHER -> s

(* _get_or_create_tags: c is the cursor's view of the transaction, the     *)
(* tags table, its AUTOINCREMENT counter and the ids collected so far.     *)
RECURSIVE GetOrCreateTagsFrom(_, _, _)
GetOrCreateTagsFrom(c, tag_names, i) ==
    IF i > Len(tag_names) THEN c
    ELSE LET tag_name == Strip(tag_names[i])
             tag == {g \in DOMAIN c.tags : c.tags[g].name = tag_name}
             id == c.seq + 1
         IN  IF tag_name = "" THEN GetOrCreateTagsFrom(c, tag_names, i + 1)
             ELSE IF tag # {}
             THEN GetOrCreateTagsFrom(
                      [c EXCEPT !.tag_ids = Append(@, Val(tag))], tag_names, i + 1)
             ELSE GetOrCreateTagsFrom(
                      [tags |-> c.tags @@ (id :> [id |-> id, name |-> tag_name,
                                                  color |-> NULL, created_at |-> now]),
                       seq |-> id,
                       tag_ids |-> Append(c.tag_ids, id)], tag_names, i + 1)

GetOrCreateTags(tag_names) ==
    IF ~ Given(tag_names)
    THEN [tags |-> tags, seq |-> sqlite_sequence.tags, tag_ids |-> <<>>]
    ELSE GetOrCreateTagsFrom(
             [tags |-> tags, seq |-> sqlite_sequence.tags, tag_ids |-> <<>>],
             tag_names, 1)

(* The INSERT INTO task_tags loop of add: the links after inserting every  *)
(* (task_id, tag_id), or the IntegrityError of the first pair that is      *)
(* already in the table (PRIMARY KEY (task_id, tag_id)).                   *)
RECURSIVE InsertTaskTags(_, _, _, _)
InsertTaskTags(links, task_id, tag_ids, i) ==
    IF i > Len(tag_ids) THEN [error |-> FALSE, links |-> links]
    ELSE IF <<task_id, tag_ids[i]>> \in links
    THEN [error |-> TRUE, links |-> links]
    ELSE InsertTaskTags(links \cup {<<task_id, tag_ids[i]>>}, task_id, tag_ids, i + 1)

(* INSERT INTO table (the columns of values): the columns the statement   *)
(* does not name take the column's DEFAULT, or NULL.                       *)
InsertRow(columns, defaults, values) ==
    [col \in columns |->
        IF col \in DOMAIN values THEN values[col]
        ELSE IF col \in DOMAIN defaults THEN defaults[col]
        ELSE NULL]

TasksDefaults == [status |-> "pending"]

NoDefaults == <<>>

(* The arguments of add: the fields f and the --tags value tag_names.      *)
WithTags(f, tag_names) ==
    [title |-> f.title, description |-> f.description, priority |-> f.priority,
     deadline |-> f.deadline, tags |-> tag_names]

(* add on a connection in autocommit mode (isolation_level None): every    *)
(* statement is persisted as it runs, so the rows written before a         *)
(* statement that raises stay.                                             *)
AddAutocommit(a) ==
    LET args == WithTags(a, a.tags) IN
    /\ UNCHANGED <<now, timer>>
    /\ IF Truthy(a.priority) /\ Val(a.priority) \notin PRIORITIES
       THEN Fails("add", args, "ValidationError")
       ELSE LET task_id == NextId("tasks")
                values == [id |-> task_id, title |-> a.title,
                           description |-> a.description, priority |-> a.priority,
                           deadline |-> a.deadline, created_at |-> now]
                c == GetOrCreateTags(a.tags)
                tt == InsertTaskTags(task_tags, task_id, c.tag_ids, 1)
            IN  /\ task_id <= MaxTasks
                /\ c.seq <= MaxTags
                /\ tasks' = tasks @@
                       (task_id :> InsertRow(TasksColumns, TasksDefaults, values))
                /\ tags' = c.tags
                /\ task_tags' = tt.links
                /\ sqlite_sequence' =
                       [sqlite_sequence EXCEPT !.tasks = task_id, !.tags = c.seq]
                /\ last' = Outcome("add", args, IF tt.error THEN "IntegrityError" ELSE "ok",
                                   <<>>)
                /\ UNCHANGED time_entries

(* add: a.title, a.description, a.priority, a.deadline and a.tags.         *)
Add(a) ==
    LET args == WithTags(a, a.tags) IN
    /\ UNCHANGED <<now, timer>>
    /\ IF Truthy(a.priority) /\ Val(a.priority) \notin PRIORITIES
       THEN Fails("add", args, "ValidationError")
       ELSE LET task_id == NextId("tasks")
                values == [id |-> task_id, title |-> a.title,
                           description |-> a.description, priority |-> a.priority,
                           deadline |-> a.deadline, created_at |-> now]
                c == GetOrCreateTags(a.tags)
                tt == InsertTaskTags(task_tags, task_id, c.tag_ids, 1)
            IN  /\ task_id <= MaxTasks
                /\ c.seq <= MaxTags
                /\ IF NoSuchColumn(DOMAIN values, TasksColumns)
                   THEN Fails("add", args, "OperationalError")
                   ELSE IF tt.error
                   THEN Fails("add", args, "IntegrityError")
                   ELSE /\ tasks' = tasks @@
                               (task_id :> InsertRow(TasksColumns, TasksDefaults, values))
                        /\ tags' = c.tags
                        /\ task_tags' = tt.links
                        /\ sqlite_sequence' =
                               [sqlite_sequence EXCEPT !.tasks = task_id,
                                                       !.tags = c.seq]
                        /\ last' = Outcome("add", args, "ok", <<>>)
                        /\ UNCHANGED time_entries

---------------------------------------------------------------------------
(* The time tracking ledger.                                               *)

(* start without the SELECT that looks the task up: the entry is inserted  *)
(* whatever task_id is (foreign keys are not enforced).                    *)
StartUnchecked(task_id) ==
    LET id == NextId("time_entries")
        values == [id |-> id, task_id |-> task_id, start_time |-> now]
    IN  /\ UNCHANGED <<now, timer>>
        /\ id <= MaxEntries
        /\ time_entries' = time_entries @@
               (id :> InsertRow(TimeEntriesColumns, NoDefaults, values))
        /\ sqlite_sequence' = [sqlite_sequence EXCEPT !.time_entries = id]
        /\ last' = Outcome("start", [task_id |-> task_id], "ok", <<>>)
        /\ UNCHANGED <<tasks, tags, task_tags>>

(* start                                                                   *)
Start(task_id) ==
    /\ UNCHANGED <<now, timer>>
    /\ IF task_id \notin DOMAIN tasks
       THEN Fails("start", [task_id |-> task_id], "NotFound")
       ELSE LET id == NextId("time_entries")
                values == [id |-> id, task_id |-> task_id, start_time |-> now]
            IN  /\ id <= MaxEntries
                /\ IF NoSuchColumn(DOMAIN values, TimeEntriesColumns)
                   THEN Fails("start", [task_id |-> task_id], "OperationalError")
                   ELSE /\ time_entries' = time_entries @@
                               (id :> InsertRow(TimeEntriesColumns, NoDefaults, values))
                        /\ sqlite_sequence' =
                               [sqlite_sequence EXCEPT !.time_entries = id]
                        /\ last' = Outcome("start", [task_id |-> task_id], "ok", <<>>)
                        /\ UNCHANGED <<tasks, tags, task_tags>>

(* The rows of stop's SELECT ... WHERE end_time IS NULL ORDER BY           *)
(* start_time DESC LIMIT 1: the candidates for the one row it returns.     *)
StopSelect ==
    LET open == {e \in DOMAIN time_entries : time_entries[e]["end_time"] = NULL}
    IN  {e \in open :
            \A o \in open : time_entries[o].start_time <= time_entries[e].start_time}

(* stop                                                                    *)
Stop ==
    /\ UNCHANGED <<now, timer>>
    /\ IF NoSuchColumn({"id", "task_id", "start_time", "end_time"}, TimeEntriesColumns)
       THEN Fails("stop", <<>>, "OperationalError")
       ELSE IF StopSelect = {}
       THEN Fails("stop", <<>>, "NoActiveSession")
       ELSE \E entry \in StopSelect :
              LET end_time == now
                  start_time == time_entries[entry].start_time
                  duration == end_time - start_time
              IN  IF NoSuchColumn({"id", "end_time", "duration"}, TimeEntriesColumns)
                  THEN Fails("stop", <<>>, "OperationalError")
                  ELSE /\ time_entries' =
                              [time_entries EXCEPT ![entry] =
                                  [@ EXCEPT !["end_time"] = Some(end_time),
                                            !["duration"] = Some(duration)]]
                       /\ last' = Outcome("stop", [entry |-> entry,
                                                   duration |-> duration], "ok", <<>>)
                       /\ UNCHANGED <<tasks, tags, task_tags, sqlite_sequence>>

(* A manual entry that stores the minutes as they were given.              *)
TimeAddMinutes(add_task_id, add_duration) ==
    LET args == [add_task_id |-> add_task_id, add_duration |-> add_duration]
        id == NextId("time_entries")
        values == [id |-> id, task_id |-> add_task_id, start_time |-> now,
                   duration |-> Some(add_duration),
                   notes |-> Some("Manual entry")]
    IN  /\ UNCHANGED <<now, timer>>
        /\ IF add_task_id \notin DOMAIN tasks
           THEN Fails("time_add", args, "NotFound")
           ELSE /\ id <= MaxEntries
                /\ time_entries' = time_entries @@
                       (id :> InsertRow(TimeEntriesColumns, NoDefaults, values))
                /\ sqlite_sequence' = [sqlite_sequence EXCEPT !.time_entries = id]
                /\ last' = Outcome("time_add", args, "ok", <<>>)
                /\ UNCHANGED <<tasks, tags, task_tags>>

(* time --add-task-id --add-duration: a manual entry of add_duration       *)
(* minutes.                                                                *)
TimeAdd(add_task_id, add_duration) ==
    LET args == [add_task_id |-> add_task_id, add_duration |-> add_duration]
        duration_seconds == add_duration * 60
        id == NextId("time_entries")
        values == [id |-> id, task_id |-> add_task_id, start_time |-> now,
                   duration |-> Some(duration_seconds),
                   notes |-> Some("Manual entry")]
    IN  /\ UNCHANGED <<now, timer>>
        /\ IF add_task_id \notin DOMAIN tasks
           THEN Fails("time_add", args, "NotFound")
           ELSE /\ id <= MaxEntries
                /\ IF NoSuchColumn(DOMAIN values, TimeEntriesColumns)
                   THEN Fails("time_add", args, "OperationalError")
                   ELSE /\ time_entries' = time_entries @@
                               (id :> InsertRow(TimeEntriesColumns, NoDefaults, values))
                        /\ sqlite_sequence' =
                               [sqlite_sequence EXCEPT !.time_entries = id]
                        /\ last' = Outcome("time_add", args, "ok", <<>>)
                        /\ UNCHANGED <<tasks, tags, task_tags>>

(* Python's truth of a nullable number: None and 0 are false.              *)
TruthyNumber(x) == x # NULL /\ Val(x) # 0

(* FROM time_entries te JOIN tasks t ON te.task_id = t.id: the entries the *)
(* inner join keeps.                                                       *)
JoinTasks == {e \in DOMAIN time_entries : time_entries[e].task_id \in DOMAIN tasks}

(* ORDER BY te.start_time, descending or not: every order of the entries   *)
(* that respects it.                                                       *)
OrderByStartTime(entries, desc) ==
    {s \in [1..Cardinality(entries) -> entries] :
        /\ \A i, j \in DOMAIN s : i # j => s[i] # s[j]
        /\ \A i, j \in DOMAIN s :
              i < j => IF desc
                       THEN time_entries[s[i]].start_time >= time_entries[s[j]].start_time
                       ELSE time_entries[s[i]].start_time <= time_entries[s[j]].start_time}

(* One line of the table of time --list: strftime("%Y-%m-%d %H:%M") keeps  *)
(* the minute of the start; the duration is shown as a timedelta or as the *)
(* text In Progress; a missing note is shown empty.                        *)
TimeListRow(e) ==
    LET entry == time_entries[e]
    IN  [id |-> e,
         title |-> tasks[entry.task_id].title,
         start_time |-> entry.start_time \div 60,
         duration |-> IF TruthyNumber(entry.duration)
                      THEN <<"timedelta", Val(entry.duration)>>
                      ELSE <<"In Progress">>,
         notes |-> IF Truthy(entry.notes) THEN Val(entry.notes) ELSE ""]

(* time --list, and time with no option.                                   *)
TimeList ==
    /\ UNCHANGED <<store, now, timer>>
    /\ IF JoinTasks = {}
       THEN last' = Outcome("time_list", <<>>, "Empty", <<>>)
       ELSE \E s \in OrderByStartTime(JoinTasks, TRUE) :
               last' = Outcome("time_list", <<>>, "ok",
                               [i \in DOMAIN s |-> TimeListRow(s[i])])

(* One line of the CSV file of time --export: the duration in minutes with *)
(* one decimal, kept here in tenths of a minute (rounded half up), and 0   *)
(* for a duration that is None or 0.                                       *)
TimeExportRow(e) ==
    LET entry == time_entries[e]
    IN  [title |-> tasks[entry.task_id].title,
         start_time |-> entry.start_time,
         duration_minutes |-> IF TruthyNumber(entry.duration)
                              THEN (Val(entry.duration) + 3) \div 6
                              ELSE 0,
         notes |-> IF Truthy(entry.notes) THEN Val(entry.notes) ELSE ""]

(* time --export FILE: the lines written to the file.                      *)
TimeExport ==
    /\ UNCHANGED <<store, now, timer>>
    /\ IF JoinTasks = {}
       THEN last' = Outcome("time_export", <<>>, "Empty", <<>>)
       ELSE \E s \in OrderByStartTime(JoinTasks, FALSE) :
               last' = Outcome("time_export", <<>>, "ok",
                               [i \in DOMAIN s |-> TimeExportRow(s[i])])

---------------------------------------------------------------------------
(* The task repository.                                                    *)

(* complete                                                                *)
Complete(task_id) ==
    LET args == [task_id |-> task_id]
    IN  /\ UNCHANGED <<now, timer>>
        /\ IF task_id \notin DOMAIN tasks
           THEN Fails("complete", args, "NotFound")
           ELSE IF tasks[task_id].status = "completed"
           THEN Fails("complete", args, "AlreadyCompleted")
           ELSE IF NoSuchColumn({"id", "status", "completed_at"}, TasksColumns)
           THEN Fails("complete", args, "OperationalError")
           ELSE /\ tasks' = [tasks EXCEPT ![task_id] =
                                [@ EXCEPT !["status"] = "completed",
                                          !["completed_at"] = Some(now)]]
                /\ last' = Outcome("complete", args, "ok", <<>>)
                /\ UNCHANGED <<tags, task_tags, time_entries, sqlite_sequence>>

(* status                                                                  *)
Status(task_id, status) ==
    LET args == [task_id |-> task_id, status |-> status]
        completed_at == IF status = "completed" THEN Some(now) ELSE NULL
    IN  /\ UNCHANGED <<now, timer>>
        /\ IF status \notin STATUSES
           THEN Fails("status", args, "ValidationError")
           ELSE IF task_id \notin DOMAIN tasks
           THEN Fails("status", args, "NotFound")
           ELSE IF NoSuchColumn({"id", "status", "completed_at"}, TasksColumns)
           THEN Fails("status", args, "OperationalError")
           ELSE /\ tasks' = [tasks EXCEPT ![task_id] =
                                [@ EXCEPT !["status"] = status,
                                          !["completed_at"] = completed_at]]
                /\ last' = Outcome("status", args, "ok", <<>>)
                /\ UNCHANGED <<tags, task_tags, time_entries, sqlite_sequence>>

(* edit with every column rewritten: a full replace, in which the fields   *)
(* not supplied become NULL (the title, NOT NULL, the empty string).       *)
EditReplace(task_id, e) ==
    LET args == [task_id |-> task_id, title |-> e.title,
                 description |-> e.description, priority |-> e.priority,
                 deadline |-> e.deadline, tags |-> e.tags]
        update_fields ==
            {col \in {"title", "description", "priority", "deadline"} : args[col] # NULL}
            \cup (IF e.tags # None THEN {"tags"} ELSE {})
        value(col) == IF col = "title"
                      THEN (IF e.title = NULL THEN "" ELSE Val(e.title))
                      ELSE args[col]
    IN  /\ UNCHANGED <<now, timer>>
        /\ IF Truthy(e.priority) /\ Val(e.priority) \notin PRIORITIES
           THEN Fails("edit", args, "ValidationError")
           ELSE IF task_id \notin DOMAIN tasks
           THEN Fails("edit", args, "NotFound")
           ELSE IF update_fields = {}
           THEN Fails("edit", args, "NoChanges")
           ELSE IF NoSuchColumn(update_fields \cup {"id"}, TasksColumns)
           THEN Fails("edit", args, "OperationalError")
           ELSE /\ tasks' = [tasks EXCEPT ![task_id] =
                                [col \in DOMAIN @ |->
                                    IF col \in {"title", "description", "priority",
                                                "deadline"}
                                    THEN value(col) ELSE @[col]]]
                /\ last' = Outcome("edit", args, "ok", <<>>)
                /\ UNCHANGED <<tags, task_tags, time_entries, sqlite_sequence>>

(* edit: e.title, e.description, e.priority and e.deadline are NULL when   *)
(* the option is not given, e.tags is None.  The UPDATE sets one column    *)
(* for each option given, tags among them.                                 *)
Edit(task_id, e) ==
    LET args == [task_id |-> task_id, title |-> e.title,
                 description |-> e.description, priority |-> e.priority,
                 deadline |-> e.deadline, tags |-> e.tags]
        update_fields ==
            {col \in {"title", "description", "priority", "deadline"} : args[col] # NULL}
            \cup (IF e.tags # None THEN {"tags"} ELSE {})
        value(col) == IF col = "title" THEN Val(e.title) ELSE args[col]
    IN  /\ UNCHANGED <<now, timer>>
        /\ IF Truthy(e.priority) /\ Val(e.priority) \notin PRIORITIES
           THEN Fails("edit", args, "ValidationError")
           ELSE IF task_id \notin DOMAIN tasks
           THEN Fails("edit", args, "NotFound")
           ELSE IF update_fields = {}
           THEN Fails("edit", args, "NoChanges")
           ELSE IF NoSuchColumn(update_fields \cup {"id"}, TasksColumns)
           THEN Fails("edit", args, "OperationalError")
           ELSE /\ tasks' = [tasks EXCEPT ![task_id] =
                                [col \in DOMAIN @ |->
                                    IF col \in update_fields
                                    THEN value(col) ELSE @[col]]]
                /\ last' = Outcome("edit", args, "ok", <<>>)
                /\ UNCHANGED <<tags, task_tags, time_entries, sqlite_sequence>>

(* sqlite3.connect leaves PRAGMA foreign_keys at its default, off: the     *)
(* FOREIGN KEY clauses of init_db are not enforced, and they declare no    *)
(* ON DELETE action.                                                       *)
ForeignKeys == FALSE

(* A table without the rows whose id is in ids.                            *)
DeleteFrom(table, ids) == [id \in DOMAIN table \ ids |-> table[id]]

(* delete with ON DELETE CASCADE from tasks to time_entries: the entries   *)
(* of the task go with it.                                                 *)
DeleteCascade(task_id, force, confirm) ==
    LET args == [task_id |-> task_id, force |-> force]
    IN  /\ UNCHANGED <<now, timer>>
        /\ IF task_id \notin DOMAIN tasks
           THEN Fails("delete", args, "NotFound")
           ELSE IF ~ force /\ ~ confirm
           THEN Fails("delete", args, "Cancelled")
           ELSE /\ tasks' = DeleteFrom(tasks, {task_id})
                /\ time_entries' =
                       DeleteFrom(time_entries,
                                  {e \in DOMAIN time_entries :
                                      time_entries[e].task_id = task_id})
                /\ last' = Outcome("delete", args, "ok", <<>>)
                /\ UNCHANGED <<tags, task_tags, sqlite_sequence>>

(* delete: force is --force, confirm the answer to typer.confirm.          *)
Delete(task_id, force, confirm) ==
    LET args == [task_id |-> task_id, force |-> force]
        referenced == \/ \E tt \in task_tags : tt[1] = task_id
                      \/ \E e \in DOMAIN time_entries :
                            time_entries[e].task_id = task_id
    IN  /\ UNCHANGED <<now, timer>>
        /\ IF task_id \notin DOMAIN tasks
           THEN Fails("delete", args, "NotFound")
           ELSE IF ~ force /\ ~ confirm
           THEN Fails("delete", args, "Cancelled")
           ELSE IF ForeignKeys /\ referenced
           THEN Fails("delete", args, "IntegrityError")
           ELSE /\ tasks' = DeleteFrom(tasks, {task_id})
                /\ last' = Outcome("delete", args, "ok", <<>>)
                /\ UNCHANGED <<tags, task_tags, time_entries, sqlite_sequence>>

---------------------------------------------------------------------------
(* tags: one action for each branch that writes.                           *)

(* tags --create on a tags table whose name column is not UNIQUE: the      *)
(* INSERT always succeeds.                                                 *)
TagsCreateAlways(create) ==
    LET args == [create |-> create]
        id == NextId("tags")
        values == [id |-> id, name |-> create, created_at |-> now]
    IN  /\ UNCHANGED <<now, timer>>
        /\ create # ""
        /\ id <= MaxTags
        /\ tags' = tags @@ (id :> InsertRow(TagsColumns, NoDefaults, values))
        /\ sqlite_sequence' = [sqlite_sequence EXCEPT !.tags = id]
        /\ last' = Outcome("tags_create", args, "ok", <<>>)
        /\ UNCHANGED <<tasks, task_tags, time_entries>>

(* tags --create: the UNIQUE constraint on tags.name raises the            *)
(* IntegrityError the branch catches.                                      *)
TagsCreate(create) ==
    LET args == [create |-> create]
        id == NextId("tags")
        values == [id |-> id, name |-> create, created_at |-> now]
    IN  /\ UNCHANGED <<now, timer>>
        /\ create # ""
        /\ id <= MaxTags
        /\ IF \E g \in DOMAIN tags : tags[g].name = create
           THEN Fails("tags_create", args, "Conflict")
           ELSE /\ tags' = tags @@ (id :> InsertRow(TagsColumns, NoDefaults, values))
                /\ sqlite_sequence' = [sqlite_sequence EXCEPT !.tags = id]
                /\ last' = Outcome("tags_create", args, "ok", <<>>)
                /\ UNCHANGED <<tasks, task_tags, time_entries>>

(* tags --delete                                                           *)
TagsDelete(delete, confirm) ==
    LET args == [delete |-> delete]
        referenced == \E tt \in task_tags : tt[2] = delete
    IN  /\ UNCHANGED <<now, timer>>
        /\ IF delete \notin DOMAIN tags
           THEN Fails("tags_delete", args, "NotFound")
           ELSE IF ~ confirm
           THEN Fails("tags_delete", args, "Cancelled")
           ELSE IF ForeignKeys /\ referenced
           THEN Fails("tags_delete", args, "IntegrityError")
           ELSE /\ tags' = DeleteFrom(tags, {delete})
                /\ last' = Outcome("tags_delete", args, "ok", <<>>)
                /\ UNCHANGED <<tasks, task_tags, time_entries, sqlite_sequence>>

(* tags --rename-id --rename-name                                          *)
TagsRename(rename_id, rename_name) ==
    LET args == [rename_id |-> rename_id, rename_name |-> rename_name]
    IN  /\ UNCHANGED <<now, timer>>
        /\ IF rename_id \notin DOMAIN tags
           THEN Fails("tags_rename", args, "NotFound")
           ELSE IF \E g \in DOMAIN tags \ {rename_id} : tags[g].name = rename_name
           THEN Fails("tags_rename", args, "Conflict")
           ELSE /\ tags' = [tags EXCEPT ![rename_id] =
                               [@ EXCEPT !["name"] = rename_name]]
                /\ last' = Outcome("tags_rename", args, "ok", <<>>)
                /\ UNCHANGED <<tasks, task_tags, time_entries, sqlite_sequence>>

---------------------------------------------------------------------------
(* list                                                                    *)

(* The tag subquery with HAVING COUNT(DISTINCT tg.name) >= 1: any of the   *)
(* requested names would do.                                               *)
TagFilterAny(tag_list) ==
    {tt[1] : tt \in {l \in task_tags :
                        /\ l[2] \in DOMAIN tags
                        /\ tags[l[2]].name \in Range(tag_list)}}

(* The tag subquery of list: task_tags JOIN tags, the rows whose tag name  *)
(* is one of tag_list, grouped by task_id, the groups that hold as many    *)
(* distinct names as tag_list has entries.                                 *)
TagFilter(tag_list) ==
    LET joined == {tt \in task_tags :
                      /\ tt[2] \in DOMAIN tags
                      /\ tags[tt[2]].name \in Range(tag_list)}
        names(task_id) == {tags[tt[2]].name : tt \in {j \in joined : j[1] = task_id}}
    IN  {task_id \in {tt[1] : tt \in joined} :
            Cardinality(names(task_id)) = Len(tag_list)}

(* The conditions on t.status: t.status = 'pending' unless completed tasks *)
(* are asked for, and t.status = ? when a status is given.                 *)
StatusConditions(a, status) ==
    /\ ~ a.show_completed => status = "pending"
    /\ Truthy(a.status) => Some(status) = a.status

(* The WHERE clause list builds from its options.                          *)
ListWhere(a) ==
    LET tag_list == [i \in 1..Len(a.tags) |-> Strip(a.tags[i])]
    IN  {t \in DOMAIN tasks :
            /\ StatusConditions(a, tasks[t].status)
            /\ Truthy(a.priority) => tasks[t].priority = a.priority
            /\ Given(a.tags) => t \in TagFilter(tag_list)}

(* One row of list: t.* and GROUP_CONCAT(tg.name) over the LEFT JOINs, the *)
(* names of the task's tags that exist (NULL, the empty set, when it has   *)
(* none).  SQLite fixes no order for the names it concatenates.            *)
ListRow(t) ==
    tasks[t] @@
    ("tag_names" :> {tags[tt[2]].name :
                        tt \in {l \in task_tags : l[1] = t /\ l[2] \in DOMAIN tags}})

(* ORDER BY t.created_at DESC: every order of the ids that respects it.    *)
OrderByCreatedDesc(ids) ==
    {s \in [1..Cardinality(ids) -> ids] :
        /\ \A i, j \in DOMAIN s : i # j => s[i] # s[j]
        /\ \A i, j \in DOMAIN s :
              i < j => tasks[s[i]].created_at >= tasks[s[j]].created_at}

(* list: a.status, a.priority, a.tags and a.show_completed.                *)
List(a) ==
    LET args == [status |-> a.status, priority |-> a.priority, tags |-> a.tags,
                 show_completed |-> a.show_completed] IN
    /\ UNCHANGED <<store, now, timer>>
    /\ IF Truthy(a.status) /\ Val(a.status) \notin STATUSES
       THEN last' = Outcome("list", args, "ValidationError", <<>>)
       ELSE IF Truthy(a.priority) /\ Val(a.priority) \notin PRIORITIES
       THEN last' = Outcome("list", args, "ValidationError", <<>>)
       ELSE IF ListWhere(a) = {}
       THEN last' = Outcome("list", args, "Empty", <<>>)
       ELSE \E s \in OrderByCreatedDesc(ListWhere(a)) :
               last' = Outcome("list", args, "ok", [i \in DOMAIN s |-> ListRow(s[i])])

---------------------------------------------------------------------------
(* stats                                                                   *)

(* The clock counts seconds from midnight of the day the model starts on,  *)
(* Saturday 2023-09-30 (datetime.weekday() numbers Monday 0).              *)
Epoch == [year |-> 2023, month |-> 9, day |-> 30, weekday |-> 5]

(* The lengths of the months of Epoch.year.                                *)
MonthDays == <<31, 28, 31, 30, 31, 30, 31, 31, 30, 31, 30, 31>>

RECURSIVE DaysBeforeMonth(_)
DaysBeforeMonth(month) ==
    IF month = 1 THEN 0 ELSE DaysBeforeMonth(month - 1) + MonthDays[month - 1]

(* date.toordinal(), counted from January 1 of Epoch.year as 1.            *)
ToOrdinal(month, day) == DaysBeforeMonth(month) + day

(* date.fromordinal(), within Epoch.year.                                  *)
FromOrdinal(n) ==
    LET month == CHOOSE m \in 1..12 :
                     DaysBeforeMonth(m) < n /\ n <= DaysBeforeMonth(m) + MonthDays[m]
    IN  [month |-> month, day |-> n - DaysBeforeMonth(month)]

(* The ordinal of the day the clock value t falls on.                      *)
OrdinalOf(t) == ToOrdinal(Epoch.month, Epoch.day) + (t \div SecondsPerDay)

(* datetime.isoformat() of the clock value t, 'YYYY-MM-DDTHH:MM:SS', as    *)
(* the fields the text holds from left to right, each of a fixed width.    *)
IsoFormat(t) ==
    LET date == FromOrdinal(OrdinalOf(t))
    IN  <<Epoch.year, date.month, date.day, t % SecondsPerDay>>

(* SQLite's >= on two such texts: the order of the first field that        *)
(* differs.                                                                *)
TextGeq(a, b) ==
    \/ a = b
    \/ \E i \in 1..4 : a[i] > b[i] /\ \A j \in 1..(i - 1) : a[j] = b[j]

PERIODS == {"day", "week", "month", "year"}

(* start_date.isoformat() for a period of PERIODS.                         *)
StartDate(period, t) ==
    LET today == FromOrdinal(OrdinalOf(t))
        weekday == (Epoch.weekday + (t \div SecondsPerDay)) % 7
        monday == FromOrdinal(OrdinalOf(t) - weekday)
    IN  CASE period = "day" -> <<Epoch.year, today.month, today.day, 0>>
          [] period = "week" -> <<Epoch.year, monday.month, monday.day, 0>>
          [] period = "month" -> <<Epoch.year, today.month, 1, 0>>
          [] period = "year" -> <<Epoch.year, 1, 1, 0>>

(* f"{rate:.1f}" of completed / total * 100, in tenths of a percent.       *)
Rate(completed, total) == (completed * 2000 + total) \div (2 * total)

(* SUM(duration) over the entries of ids: NULL when none of them has a     *)
(* duration.                                                               *)
RECURSIVE SumDuration(_)
SumDuration(ids) ==
    IF ids = {} THEN NULL
    ELSE LET e == CHOOSE x \in ids : TRUE
             rest == SumDuration(ids \ {e})
             duration == time_entries[e].duration
         IN  IF duration = NULL THEN rest
             ELSE IF rest = NULL THEN duration
             ELSE Some(Val(duration) + Val(rest))

(* stats --period --detailed.  The aggregates over no row are NULL but     *)
(* COUNT; the overview formats the completion rate with :.1f and the       *)
(* detailed table of hours passes SUM(duration) to timedelta, and both     *)
(* raise TypeError on None.                                                *)
Stats(period, detailed) ==
    LET args == [period |-> period, detailed |-> detailed]
        start_date == StartDate(period, now)
        created == {t \in DOMAIN tasks :
                       TextGeq(IsoFormat(tasks[t].created_at), start_date)}
        completed == {t \in created : tasks[t].status = "completed"}
        total_tasks == Cardinality(created)
        completed_tasks == IF created = {} THEN NULL ELSE Some(Cardinality(completed))
        completion_rate ==
            IF created = {} THEN NULL
            ELSE Some(Rate(Cardinality(completed), total_tasks))
        started == {e \in DOMAIN time_entries :
                       TextGeq(IsoFormat(time_entries[e].start_time), start_date)}
        tracked_tasks == Cardinality({time_entries[e].task_id : e \in started})
        priority_stats ==
            {[priority |-> p,
              total |-> Cardinality({t \in created : tasks[t].priority = p}),
              completed |-> Cardinality({t \in completed : tasks[t].priority = p}),
              completion_rate |->
                  Rate(Cardinality({t \in completed : tasks[t].priority = p}),
                       Cardinality({t \in created : tasks[t].priority = p}))] :
                p \in {tasks[t].priority : t \in created}}
        hour(e) == (time_entries[e].start_time % SecondsPerDay) \div 3600
        productive_hours ==
            {[hour |-> h,
              sessions |-> Cardinality({e \in started : hour(e) = h}),
              total_time |-> SumDuration({e \in started : hour(e) = h})] :
                h \in {hour(e) : e \in started}}
        total_time == SumDuration(started)
        overview == [total_tasks |-> total_tasks, completed_tasks |-> completed_tasks,
                     completion_rate |-> completion_rate,
                     tracked_tasks |-> tracked_tasks,
                     total_time |-> IF total_time = NULL THEN 0 ELSE Val(total_time)]
    IN  /\ UNCHANGED <<store, now, timer>>
        /\ IF period \notin PERIODS
           THEN last' = Outcome("stats", args, "ValidationError", <<>>)
           ELSE IF completion_rate = NULL
           THEN last' = Outcome("stats", args, "TypeError", <<>>)
           ELSE IF detailed /\ Cardinality(productive_hours) <= 5
                           /\ \E h \in productive_hours : h.total_time = NULL
           THEN last' = Outcome("stats", args, "TypeError", <<overview>>)
           ELSE last' = Outcome("stats", args, "ok",
                                <<overview>> \o
                                (IF detailed THEN <<priority_stats>> ELSE <<>>))

---------------------------------------------------------------------------
(* The arguments the commands are run with.                                *)

TagNames == {"x", "y", "z"}

TaskIds == 1..(MaxTasks + 1)

TagIds == 1..(MaxTags + 1)

NoFields == [title |-> "a", description |-> NULL, priority |-> NULL, deadline |-> NULL]

AllFields ==
    [title |-> "b", description |-> Some("d"), priority |-> Some("high"),
     deadline |-> Some("2026-01-01")]

BadPriority ==
    [title |-> "c", description |-> NULL, priority |-> Some("urgent"),
     deadline |-> NULL]

(* --tags values of add: lists of names, one with a repeated name, one     *)
(* with an empty name and one with blanks around the names.                *)
AddTags ==
    { None, <<"x">>, <<"x", "y">>, <<"x", "y", "z">>, <<"x", "x">>, <<"x", "">>,
      <<" x", "y ">> }

AddArgs ==
    {WithTags(NoFields, t) : t \in AddTags}
    \cup {WithTags(AllFields, <<"y", "z">>), WithTags(BadPriority, None)}

(* --tags values of list: names tags have and one, "w", no tag has.        *)
ListTags ==
    { <<"x">>, <<"x", "y">>, <<"x", "w">>, <<"x", "x">>, <<"x", "">>, <<" x", "y ">> }

ListArgs ==
    {[status |-> NULL, priority |-> NULL, tags |-> t, show_completed |-> FALSE] :
        t \in ListTags}
    \cup
    {[status |-> st, priority |-> NULL, tags |-> None, show_completed |-> TRUE] :
        st \in {NULL, Some("completed"), Some("done")}}
    \cup
    {[status |-> st, priority |-> NULL, tags |-> None, show_completed |-> FALSE] :
        st \in {Some("completed"), Some("pending")}}
    \cup
    {[status |-> NULL, priority |-> pr, tags |-> None, show_completed |-> FALSE] :
        pr \in {Some("high"), Some("top")}}

---------------------------------------------------------------------------
(* Tasks with tags, and the listing of them.                               *)

ListNext ==
    \/ \E a \in AddArgs : Add(a)
    \/ \E g \in TagIds : TagsDelete(g, TRUE)
    \/ \E a \in ListArgs : List(a)

ListSpec == Init /\ [][ListNext]_vars

---------------------------------------------------------------------------
(* The task repository: status changes and deletes.                        *)

Next ==
    \/ Tick
    \/ \E t \in {None, <<"x">>, <<"x", "y">>} : Add(WithTags(AllFields, t))
    \/ \E t \in TaskIds : Complete(t)
    \/ \E t \in TaskIds, st \in STATUSES \cup {"done"} : Status(t, st)
    \/ \E t \in TaskIds, force, confirm \in BOOLEAN : Delete(t, force, confirm)
    \/ \E g \in TagIds, confirm \in BOOLEAN : TagsDelete(g, confirm)

Spec == Init /\ [][Next]_vars

---------------------------------------------------------------------------
(* The time tracking ledger.                                               *)

Minutes == {0, 1, 30}

LedgerNext ==
    \/ Tick
    \/ Add(WithTags(NoFields, None))
    \/ \E t \in TaskIds : Start(t)
    \/ Stop
    \/ \E t \in TaskIds, m \in Minutes : TimeAdd(t, m)

LedgerSpec == Init /\ [][LedgerNext]_vars

---------------------------------------------------------------------------
(* Tasks with time entries: edits, status changes and deletes.             *)

NoEdit ==
    [title |-> NULL, description |-> NULL, priority |-> NULL, deadline |-> NULL,
     tags |-> None]

TitleOnly == [NoEdit EXCEPT !.title = Some("t")]

UrgentOnly == [NoEdit EXCEPT !.priority = Some("urgent")]

(* The options of edit: none, one column, a priority that is not one of   *)
(* PRIORITIES, tags alone, and a column and tags.                          *)
EditArgs ==
    { NoEdit, TitleOnly, UrgentOnly,
      [NoEdit EXCEPT !.tags = <<"x", "y">>],
      [NoEdit EXCEPT !.priority = Some("low"), !.tags = <<"x">>] }

StoreNext ==
    \/ Add(WithTags(AllFields, None))
    \/ \E t \in TaskIds : Start(t)
    \/ \E t \in TaskIds : TimeAdd(t, 30)
    \/ \E t \in TaskIds, e \in {TitleOnly, UrgentOnly} : Edit(t, e)
    \/ \E t \in TaskIds : Complete(t)
    \/ \E t \in TaskIds, st \in {"completed", "done"} : Status(t, st)
    \/ \E t \in TaskIds : Delete(t, TRUE, FALSE)

StoreSpec == Init /\ [][StoreNext]_vars

---------------------------------------------------------------------------
(* The tags command, and tags created by add.                              *)

TagsNext ==
    \/ \E n \in {"x", "y"} : TagsCreate(n)
    \/ \E g \in TagIds, n \in {"x", "y"} : TagsRename(g, n)
    \/ \E g \in TagIds : TagsDelete(g, TRUE)
    \/ \E t \in {<<"y", "x">>, <<"z", "z">>} : Add(WithTags(NoFields, t))

TagsSpec == Init /\ [][TagsNext]_vars

---------------------------------------------------------------------------
(* Edits of tasks that have tags and time entries.                         *)

EditNext ==
    \/ Tick
    \/ \E t \in {None, <<"x">>} : Add(WithTags(AllFields, t))
    \/ TimeAdd(1, 30)
    \/ \E t \in {1, MaxTasks + 1}, e \in EditArgs : Edit(t, e)

EditSpec == Init /\ [][EditNext]_vars

---------------------------------------------------------------------------
(* Statistics over tasks created on different days.                        *)

StatsNext ==
    \/ Tick
    \/ NextDay
    \/ Add(WithTags(NoFields, None))
    \/ \E period \in PERIODS \cup {"hour"}, detailed \in BOOLEAN : Stats(period, detailed)

StatsSpec == Init /\ [][StatsNext]_vars

---------------------------------------------------------------------------
(* The pomodoro timer (src/corhyn/pomodoro.py).  The pomodoro command runs *)
(* start_session on its own thread of control, one statement that reads or *)
(* writes is_running per step; stop() is a call from another thread, and   *)
(* Ctrl+C raises KeyboardInterrupt inside start_session.  One iteration of *)
(* the loop of _show_progress, which ends in time.sleep(1), is one tick.   *)

SecondsPerMinute == 60

PHASES == {"work", "short", "long"}

(* The positions between the call of start_session and its return.         *)
InStartSession == {"set_running", "reset", "head"} \cup PHASES

NewProgress(duration) == [total |-> duration, completed |-> 0]

(* progress.finished: the one task of the bar has completed >= total.      *)
Finished == progress.completed >= progress.total

(* The record of the phases begun, kept in blocks of 2 * total_sessions.   *)
Begin(phase) ==
    IF Len(phases) = 2 * total_sessions THEN <<phase>> ELSE Append(phases, phase)

(* corhyn pomodoro --minutes m: a new timer, and start_session(minutes)    *)
(* up to its first write of is_running.                                    *)
Pomodoro(minutes) ==
    /\ pc = "idle"
    /\ work_duration' = IF minutes # 0 THEN minutes ELSE work_duration
    /\ pc' = "set_running"
    /\ UNCHANGED <<is_running, current_session, progress, phases, stop_called>>
    /\ UNCHANGED <<store, now, last>>

(* self.is_running = True                                                  *)
SetRunning ==
    /\ pc = "set_running"
    /\ is_running' = TRUE
    /\ pc' = "reset"
    /\ UNCHANGED <<current_session, work_duration, progress, phases, stop_called>>
    /\ UNCHANGED <<store, now, last>>

(* self.current_session = 0                                                *)
ResetSession ==
    /\ pc = "reset"
    /\ current_session' = 0
    /\ pc' = "head"
    /\ UNCHANGED <<is_running, work_duration, progress, phases, stop_called>>
    /\ UNCHANGED <<store, now, last>>

(* while self.is_running and self.current_session < self.total_sessions:   *)
(* the test, and on success the increment and the bar of the work period.  *)
WhileTest ==
    /\ pc = "head"
    /\ IF is_running /\ current_session < total_sessions
       THEN /\ current_session' = current_session + 1
            /\ progress' = NewProgress(work_duration * SecondsPerMinute)
            /\ phases' = Begin("work")
            /\ pc' = "work"
       ELSE /\ pc' = "returned"
            /\ UNCHANGED <<current_session, progress, phases>>
    /\ UNCHANGED <<is_running, work_duration, stop_called>>
    /\ UNCHANGED <<store, now, last>>

(* One iteration of _show_progress: advance the bar by one, sleep a second.*)
ShowProgress ==
    /\ pc \in PHASES
    /\ ~Finished
    /\ progress' = [progress EXCEPT !.completed = @ + 1]
    /\ UNCHANGED <<is_running, current_session, work_duration, pc, phases, stop_called>>
    /\ UNCHANGED <<store, now, last>>

(* A timer that has no long break: every work period ends in a short one. *)
EndWorkShortOnly ==
    /\ pc = "work"
    /\ Finished
    /\ progress' = NewProgress(short_break_duration * SecondsPerMinute)
    /\ phases' = Begin("short")
    /\ pc' = "short"
    /\ UNCHANGED <<is_running, current_session, work_duration, stop_called>>
    /\ UNCHANGED <<store, now, last>>

(* The work period is over: notify, then the short break, or the long one  *)
(* after the last session of the round.                                    *)
EndWork ==
    /\ pc = "work"
    /\ Finished
    /\ IF current_session < total_sessions
       THEN /\ progress' = NewProgress(short_break_duration * SecondsPerMinute)
            /\ phases' = Begin("short")
            /\ pc' = "short"
       ELSE /\ progress' = NewProgress(long_break_duration * SecondsPerMinute)
            /\ phases' = Begin("long")
            /\ pc' = "long"
    /\ UNCHANGED <<is_running, current_session, work_duration, stop_called>>
    /\ UNCHANGED <<store, now, last>>

(* The short break is over: notify and go back to the test of the loop.    *)
EndShortBreak ==
    /\ pc = "short"
    /\ Finished
    /\ pc' = "head"
    /\ progress' = NoProgress
    /\ UNCHANGED <<is_running, current_session, work_duration, phases, stop_called>>
    /\ UNCHANGED <<store, now, last>>

(* A long break that leaves the counter at total_sessions.                 *)
EndLongBreakNoReset ==
    /\ pc = "long"
    /\ Finished
    /\ pc' = "head"
    /\ progress' = NoProgress
    /\ UNCHANGED <<is_running, current_session, work_duration, phases, stop_called>>
    /\ UNCHANGED <<store, now, last>>

(* The long break is over: notify, reset the counter for the next round.   *)
EndLongBreak ==
    /\ pc = "long"
    /\ Finished
    /\ current_session' = 0
    /\ pc' = "head"
    /\ progress' = NoProgress
    /\ UNCHANGED <<is_running, work_duration, phases, stop_called>>
    /\ UNCHANGED <<store, now, last>>

(* The steps of the thread that runs start_session.                        *)
StartSession ==
    \/ SetRunning
    \/ ResetSession
    \/ WhileTest
    \/ ShowProgress
    \/ EndWork
    \/ EndShortBreak
    \/ EndLongBreak

(* PomodoroTimer.stop(), called once from another thread at any moment     *)
(* after start_session has been called.                                    *)
TimerStop ==
    /\ pc \in InStartSession
    /\ ~stop_called
    /\ is_running' = FALSE
    /\ stop_called' = TRUE
    /\ UNCHANGED <<current_session, work_duration, pc, progress, phases>>
    /\ UNCHANGED <<store, now, last>>

(* Ctrl+C: KeyboardInterrupt leaves start_session where it stands, and the *)
(* handler of the command calls timer.stop().                              *)
KeyboardInterrupt ==
    /\ pc \in InStartSession
    /\ pc' = "interrupted"
    /\ is_running' = FALSE
    /\ UNCHANGED <<current_session, work_duration, progress, phases, stop_called>>
    /\ UNCHANGED <<store, now, last>>

PomodoroMinutes == 1..MaxMinutes

TimerNext ==
    \/ \E minutes \in PomodoroMinutes : Pomodoro(minutes)
    \/ StartSession
    \/ TimerStop
    \/ KeyboardInterrupt

TimerSpec == Init /\ [][TimerNext]_vars

(* The thread of start_session keeps running: every sleep returns and the  *)
(* next statement is executed.  Nothing obliges stop() or Ctrl+C to come.  *)
FairTimerSpec == TimerSpec /\ WF_vars(StartSession)

---------------------------------------------------------------------------
(* The time command over a ledger whose tasks come and go.                 *)

TimeNext ==
    \/ \E t \in {None, <<"x">>} : Add(WithTags(NoFields, t))
    \/ Start(1)
    \/ \E m \in {0, 30} : TimeAdd(1, m)
    \/ \E t \in 1..MaxTasks : Delete(t, TRUE, FALSE)
    \/ TimeList
    \/ TimeExport

TimeSpec == Init /\ [][TimeNext]_vars

---------------------------------------------------------------------------
(* Properties of list.                                                     *)

(* Task t is linked to a tag named n.                                      *)
Carries(t, n) == \E g \in DOMAIN tags : tags[g].name = n /\ <<t, g>> \in task_tags

(* The tag filters the properties range over: up to MaxRequest names, as   *)
(* list has them after strip(), drawn from two names tasks carry and one   *)
(* no tag has.                                                             *)
Requests == SeqsUpTo({"x", "y", "w"}, MaxRequest)

Distinct(r) == \A i, j \in DOMAIN r : i # j => r[i] # r[j]

TagQuery(r) ==
    [status |-> NULL, priority |-> NULL, tags |-> r, show_completed |-> TRUE]

(* The ids of the rows the last list printed.                              *)
Listed == {last.rows[i].id : i \in DOMAIN last.rows}

(* C1: list with a tag filter of N names returns a task if and only if the *)
(* number of distinct requested names it carries is N; a task that misses  *)
(* one of the requested names is never returned, whatever else it carries; *)
(* and when the N names are different names, the tasks returned are        *)
(* exactly those linked to every one of them.  This is stated of the query *)
(* on every store a writing command leaves (list itself writes nothing),   *)
(* for every filter of Requests, and of the rows the last list printed.    *)
C1_TagIntersection ==
    /\ last.op # "list" =>
          \A r \in Requests :
              LET listed == ListWhere(TagQuery(r))
              IN  /\ listed = {t \in DOMAIN tasks :
                                 Cardinality({n \in Range(r) : Carries(t, n)}) = Len(r)}
                  /\ \A t \in listed : \A n \in Range(r) : Carries(t, n)
                  /\ Distinct(r) =>
                        listed = {t \in DOMAIN tasks :
                                     \A n \in Range(r) : Carries(t, n)}
    /\ (last.op = "list" /\ last.result \in {"ok", "Empty"} /\ Given(last.args.tags)) =>
          LET r == [i \in DOMAIN last.args.tags |-> Strip(last.args.tags[i])]
          IN  /\ Len(last.rows) = Cardinality(Listed)
              /\ \A t \in Listed : \A n \in Range(r) : Carries(t, n)
              /\ Distinct(r) /\ ~ Truthy(last.args.status) /\ ~ Truthy(last.args.priority)
                    => Listed = {t \in DOMAIN tasks :
                                    /\ tasks[t].status = "pending"
                                    /\ \A n \in Range(r) : Carries(t, n)}

(* A list filtered by x and y printed a task tagged x, y and z, and left   *)
(* out a task that carries x but not y.                                    *)
C1_Witness ==
    /\ last.op = "list"
    /\ last.args.tags = <<"x", "y">>
    /\ \E i \in DOMAIN last.rows : last.rows[i].tag_names = {"x", "y", "z"}
    /\ \E t \in DOMAIN tasks \ Listed : Carries(t, "x") /\ ~ Carries(t, "y")

(* list with a status filter (NULL for none) and no other.                 *)
StatusQuery(status, show_completed) ==
    [status |-> status, priority |-> NULL, tags |-> None,
     show_completed |-> show_completed]

---------------------------------------------------------------------------
(* Properties of the ledger.                                               *)

(* The open entries: no duration recorded.                                 *)
OpenEntries == {e \in DOMAIN time_entries : time_entries[e].duration = NULL}

(* The closed entries of task t in ledger te.                              *)
ClosedOf(te, t) == {e \in DOMAIN te : te[e].task_id = t /\ te[e].duration # NULL}

(* C2: at most one time entry is open, whatever sequence of start, stop    *)
(* and manual entries led to the state.                                    *)
C2_AtMostOneOpen == Cardinality(OpenEntries) <= 1

(* C3: a stop that follows a successful start(t) succeeds and closes the   *)
(* entry that start opened, with the whole seconds elapsed since its       *)
(* start_time as duration; the closed entries of t grow by that entry.     *)
C3_StartThenStop ==
    [][ (last.op = "start" /\ last.result = "ok" /\ last'.op = "stop") =>
            LET e == sqlite_sequence.time_entries
                t == last.args.task_id
            IN  /\ last'.result = "ok"
                /\ now' >= time_entries[e].start_time
                /\ time_entries'[e].duration =
                       Some(now' - time_entries[e].start_time)
                /\ ClosedOf(time_entries', t) = ClosedOf(time_entries, t) \cup {e}
      ]_vars

(* C4: a stop with no entry open reports NoActiveSession (and, failing,    *)
(* changes no row).                                                        *)
C4_StopWithoutSession ==
    (last.op = "stop" /\ OpenEntries = {}) => last.result = "NoActiveSession"

(* C5: with several entries open, a stop closes the open entry with the    *)
(* latest start_time and changes no other entry.                           *)
C5_StopClosesLatest ==
    [][ (last'.op = "stop" /\ last' # last /\ Cardinality(OpenEntries) >= 2) =>
            \E e \in OpenEntries :
                /\ \A o \in OpenEntries :
                      time_entries[o].start_time <= time_entries[e].start_time
                /\ DOMAIN time_entries' = DOMAIN time_entries
                /\ time_entries'[e].duration # NULL
                /\ \A o \in DOMAIN time_entries \ {e} :
                      time_entries'[o] = time_entries[o]
      ]_vars

---------------------------------------------------------------------------
(* Properties of the task repository.                                      *)

(* completed_at of a task row; a row without that column has none.         *)
CompletedAt(row) == IF "completed_at" \in DOMAIN row THEN row["completed_at"] ELSE NULL

(* The status a complete or status command asks for.                       *)
Requested(l) == IF l.op = "complete" THEN "completed" ELSE l.args.status

(* C6: completed_at is set exactly when the status is completed: in every  *)
(* state, and a complete or status command on an existing task leaves the  *)
(* task with the status asked for, completed_at set for completed and      *)
(* cleared for pending.                                                    *)
C6_CompletedAtIffCompleted ==
    /\ [](\A t \in DOMAIN tasks :
             CompletedAt(tasks[t]) # NULL <=> tasks[t].status = "completed")
    /\ [][ (/\ last' # last
            /\ last'.op \in {"complete", "status"}
            /\ Requested(last') \in STATUSES
            /\ last'.args.task_id \in DOMAIN tasks) =>
               LET t == last'.args.task_id
               IN  /\ t \in DOMAIN tasks'
                   /\ tasks'[t].status = Requested(last')
                   /\ CompletedAt(tasks'[t]) # NULL <=> Requested(last') = "completed"
         ]_vars

(* C7: status(id, completed) followed by status(id, pending) on an         *)
(* existing task: both succeed, the task is pending with completed_at      *)
(* NULL, and a status command changes no other column of the task.         *)
C7_StatusRoundTrip ==
    [][ /\ (last' # last /\ last'.op = "status"
                /\ last'.args.task_id \in DOMAIN tasks) =>
               LET t == last'.args.task_id
               IN  /\ t \in DOMAIN tasks'
                   /\ \A col \in DOMAIN tasks[t] \ {"status", "completed_at"} :
                         tasks'[t][col] = tasks[t][col]
        /\ (/\ last.op = "status" /\ last.args.status = "completed"
            /\ last'.op = "status" /\ last'.args.status = "pending"
            /\ last'.args.task_id = last.args.task_id
            /\ last.args.task_id \in DOMAIN tasks) =>
               LET t == last.args.task_id
               IN  /\ last.result = "ok"
                   /\ last'.result = "ok"
                   /\ tasks'[t].status = "pending"
                   /\ CompletedAt(tasks'[t]) = NULL
      ]_vars

(* C8: a complete or status command that asks for the status the task      *)
(* already has succeeds (or reports "already completed") and changes no    *)
(* task row.                                                               *)
C8_SameStatusNoOp ==
    [][ (/\ last' # last
         /\ last'.op \in {"complete", "status"}
         /\ last'.args.task_id \in DOMAIN tasks
         /\ tasks[last'.args.task_id].status = Requested(last')) =>
            /\ last'.result \in {"ok", "AlreadyCompleted"}
            /\ tasks' = tasks
      ]_vars

(* C10: every task_tags link refers to a task and to a tag that exist: a   *)
(* delete of a task or of a tag removes its links.                         *)
C10_LinksReferToRows ==
    \A tt \in task_tags : tt[1] \in DOMAIN tasks /\ tt[2] \in DOMAIN tags

---------------------------------------------------------------------------
(* Properties of add.                                                      *)

(* The inputs create accepts: a title, and a priority that is unset or one *)
(* of PRIORITIES.                                                          *)
ValidAdd(a) == a.title # "" /\ (a.priority = NULL \/ Val(a.priority) \in PRIORITIES)

(* list with no filter and completed tasks included.                       *)
IsListAll(a) ==
    a.status = NULL /\ a.priority = NULL /\ a.tags = None /\ a.show_completed

(* C9: an add with valid inputs succeeds and leaves every row listed       *)
(* before as it was; the list of all tasks that follows it holds exactly   *)
(* one row for the new task, with the fields and tags given, pending and   *)
(* not completed.                                                          *)
C9_CreateThenList ==
    [][ /\ (last' # last /\ last'.op = "add" /\ ValidAdd(last'.args)) =>
               /\ last'.result = "ok"
               /\ \A t \in DOMAIN tasks : t \in DOMAIN tasks' /\ ListRow(t)' = ListRow(t)
        /\ (/\ last.op = "add" /\ ValidAdd(last.args)
            /\ last'.op = "list" /\ IsListAll(last'.args)) =>
               LET a == last.args
                   new == {i \in DOMAIN last'.rows :
                              last'.rows[i].id = sqlite_sequence.tasks}
               IN  /\ Cardinality(new) = 1
                   /\ \A i \in new :
                         LET row == last'.rows[i]
                         IN  /\ row.title = a.title
                             /\ row.description = a.description
                             /\ row.priority = a.priority
                             /\ row.deadline = a.deadline
                             /\ row.status = "pending"
                             /\ CompletedAt(row) = NULL
                             /\ row.tag_names =
                                    {Strip(a.tags[k]) : k \in DOMAIN a.tags} \ {""}
      ]_vars

---------------------------------------------------------------------------
(* Properties of delete and of the commands given a task that is not       *)
(* there.                                                                  *)

(* C11: a delete of a task leaves every time entry as it was: the entries  *)
(* of the deleted task stay in the ledger with their task_id, start_time   *)
(* and duration, and refer to a task that no longer exists.                *)
C11_DeleteKeepsEntries ==
    [][ (last' # last /\ last'.op = "delete") =>
            /\ time_entries' = time_entries
            /\ last'.result = "ok" =>
                  /\ last'.args.task_id \notin DOMAIN tasks'
                  /\ \A e \in DOMAIN time_entries :
                        time_entries[e].task_id = last'.args.task_id =>
                            /\ e \in DOMAIN time_entries'
                            /\ time_entries'[e].task_id = last'.args.task_id
                            /\ time_entries'[e].start_time = time_entries[e].start_time
                            /\ time_entries'[e].duration = time_entries[e].duration
      ]_vars

(* A task with an open and a closed entry was deleted, and both entries    *)
(* are in the ledger.                                                      *)
C11_Witness ==
    /\ last.op = "delete"
    /\ last.result = "ok"
    /\ last.args.task_id \notin DOMAIN tasks
    /\ \E e, f \in DOMAIN time_entries :
          /\ time_entries[e].task_id = last.args.task_id
          /\ time_entries[f].task_id = last.args.task_id
          /\ time_entries[e].duration = NULL
          /\ time_entries[f].duration = Some(1800)

(* The commands that take a task_id, by the name they report.              *)
TaskCommands == {"start", "time_add", "edit", "status", "complete", "delete"}

(* The task_id a command was given.                                        *)
TaskIdOf(l) == IF l.op = "time_add" THEN l.args.add_task_id ELSE l.args.task_id

(* The arguments of the command, the task_id aside, are ones it accepts.   *)
ValidArgs(l) ==
    /\ l.op = "status" => l.args.status \in STATUSES
    /\ l.op = "edit" =>
          ~ (Truthy(l.args.priority) /\ Val(l.args.priority) \notin PRIORITIES)

(* C17: a start, manual entry, edit, status, complete or delete given a    *)
(* task_id that does not exist changes no row of any table, and reports    *)
(* NotFound (when its other arguments are valid: a status or priority that *)
(* is not allowed is reported as such, before the task is looked up); no   *)
(* time entry is ever inserted for a task that does not exist then.        *)
C17_NotFound ==
    [][ /\ (/\ last' # last
            /\ last'.op \in TaskCommands
            /\ TaskIdOf(last') \notin DOMAIN tasks) =>
               /\ store' = store
               /\ ValidArgs(last') => last'.result = "NotFound"
               /\ last'.result \in {"NotFound", "ValidationError"}
        /\ \A e \in DOMAIN time_entries' \ DOMAIN time_entries :
               time_entries'[e].task_id \in DOMAIN tasks
      ]_vars

(* A manual entry was asked for a task that had been deleted, whose        *)
(* earlier entry is still in the ledger: NotFound.                         *)
C17_Witness ==
    /\ last.op = "time_add"
    /\ last.result = "NotFound"
    /\ last.args.add_task_id <= sqlite_sequence.tasks
    /\ \E e \in DOMAIN time_entries : time_entries[e].task_id = last.args.add_task_id

---------------------------------------------------------------------------
(* Properties of tags.                                                     *)

(* Some tag other than g is named n.                                       *)
NameTaken(n, g) == \E h \in DOMAIN tags \ {g} : tags[h].name = n

(* C12: no two tags have the same name, in every state; a tags --create    *)
(* of a name a tag has, and a rename to a name another tag has, report     *)
(* Conflict and change no row; the tags that add creates through           *)
(* _get_or_create_tags never repeat a name (the first conjunct, on the     *)
(* states add leaves).                                                     *)
C12_TagNamesUnique ==
    /\ [](\A g, h \in DOMAIN tags : g # h => tags[g].name # tags[h].name)
    /\ [][ (last' # last /\ last'.op = "tags_create"
                /\ NameTaken(last'.args.create, 0)) =>
               (last'.result = "Conflict" /\ store' = store) ]_vars
    /\ [][ (last' # last /\ last'.op = "tags_rename"
                /\ last'.args.rename_id \in DOMAIN tags
                /\ NameTaken(last'.args.rename_name, last'.args.rename_id)) =>
               (last'.result = "Conflict" /\ store' = store) ]_vars

(* tags --create reported a conflict with a tag that add had created and   *)
(* linked to a task.                                                       *)
C12_Witness ==
    /\ last.op = "tags_create"
    /\ last.result = "Conflict"
    /\ \E g \in DOMAIN tags :
          /\ tags[g].name = last.args.create
          /\ \E tt \in task_tags : tt[2] = g

(* The names of a --tags value as the resolver is to take them: stripped,  *)
(* the empty ones dropped, each name once, at its first place.             *)
RECURSIVE Collapse(_, _, _)
Collapse(tag_names, i, acc) ==
    IF i > Len(tag_names) THEN acc
    ELSE LET tag_name == Strip(tag_names[i])
         IN  IF tag_name = "" \/ tag_name \in Range(acc)
             THEN Collapse(tag_names, i + 1, acc)
             ELSE Collapse(tag_names, i + 1, Append(acc, tag_name))

(* C13: _get_or_create_tags returns one identifier for each distinct name  *)
(* of its input, in the order of the input: a repeated name gives a single *)
(* identifier and a single tag row, and a name that is empty once stripped *)
(* is skipped.  Stated of the resolver run on every store, for every       *)
(* --tags value of AddTags.                                                *)
C13_ResolveOnce ==
    \A tag_names \in AddTags \ {None} :
        LET c == GetOrCreateTags(tag_names)
            wanted == Collapse(tag_names, 1, <<>>)
        IN  c.seq <= MaxTags =>
              /\ Len(c.tag_ids) = Len(wanted)
              /\ \A i \in 1..Len(c.tag_ids) :
                    i <= Len(wanted) =>
                        /\ c.tag_ids[i] \in DOMAIN c.tags
                        /\ c.tags[c.tag_ids[i]].name = wanted[i]
              /\ \A g, h \in DOMAIN c.tags : g # h => c.tags[g].name # c.tags[h].name

(* C14: an add with tags is atomic.  Either it succeeds and the task row,  *)
(* a tag for every name it gave and a link from the task to each of them   *)
(* are all persisted, or it fails and nothing of it is: no row of any table *)
(* changes, whichever statement failed.                                    *)
C14_AddAtomic ==
    [][ (last' # last /\ last'.op = "add") =>
            \/ /\ last'.result = "ok"
               /\ sqlite_sequence'.tasks = sqlite_sequence.tasks + 1
               /\ sqlite_sequence'.tasks \in DOMAIN tasks'
               /\ \A n \in Range(Collapse(last'.args.tags, 1, <<>>)) :
                     \E g \in DOMAIN tags' :
                         /\ tags'[g].name = n
                         /\ <<sqlite_sequence'.tasks, g>> \in task_tags'
            \/ /\ last'.result # "ok"
               /\ store' = store
      ]_vars

(* An add failed on its second link, after it had inserted the task, the   *)
(* tag x and the first link: none of the three is in the store.            *)
C14_Witness ==
    /\ last.op = "add"
    /\ last.result = "IntegrityError"
    /\ last.args.tags = <<"x", "x">>
    /\ tasks = <<>>
    /\ tags = <<>>
    /\ task_tags = {}

---------------------------------------------------------------------------
(* Properties of edit.                                                     *)

(* The columns an edit was given a value for.                              *)
Supplied(e) ==
    {col \in {"title", "description", "priority", "deadline"} : e[col] # NULL}

(* C15: an edit changes only the fields it was given.  Every column of the *)
(* task it was not given (status, created_at and completed_at among them)  *)
(* keeps its value, and so do every other task, every tag, link and time   *)
(* entry; an edit that succeeds leaves the given columns with the given    *)
(* values.                                                                 *)
C15_EditOnlySupplied ==
    [][ (last' # last /\ last'.op = "edit") =>
            /\ DOMAIN tasks' = DOMAIN tasks
            /\ \A t \in DOMAIN tasks :
                  /\ DOMAIN tasks'[t] = DOMAIN tasks[t]
                  /\ \A col \in DOMAIN tasks[t] :
                        (t # last'.args.task_id \/ col \notin Supplied(last'.args))
                            => tasks'[t][col] = tasks[t][col]
                  /\ CompletedAt(tasks'[t]) = CompletedAt(tasks[t])
            /\ UNCHANGED <<tags, task_tags, time_entries>>
            /\ last'.result = "ok" =>
                  LET row == tasks'[last'.args.task_id]
                  IN  \A col \in Supplied(last'.args) :
                          row[col] = IF col = "title" THEN Val(last'.args.title)
                                     ELSE last'.args[col]
      ]_vars

(* An edit that gave only a title succeeded after time had passed: the     *)
(* task has the new title, and the description, priority, deadline, status *)
(* and created_at of its add; it has a tag and a time entry.               *)
C15_Witness ==
    /\ last.op = "edit"
    /\ last.result = "ok"
    /\ last.args.title = Some("t")
    /\ last.args.priority = NULL
    /\ LET row == tasks[last.args.task_id]
       IN  /\ row.title = "t"
           /\ row.description = AllFields.description
           /\ row.priority = AllFields.priority
           /\ row.deadline = AllFields.deadline
           /\ row.status = "pending"
           /\ row.created_at < now
    /\ \E tt \in task_tags : tt[1] = last.args.task_id
    /\ \E e \in DOMAIN time_entries : time_entries[e].task_id = last.args.task_id

(* C16: an edit of an existing task that gives a tags value succeeds, and  *)
(* leaves the task linked to a tag of every name in the value, the tags    *)
(* that were missing having been created.                                  *)
C16_EditTags ==
    [][ (/\ last' # last
         /\ last'.op = "edit"
         /\ last'.args.task_id \in DOMAIN tasks
         /\ Given(last'.args.tags)
         /\ ~ (Truthy(last'.args.priority)
                  /\ Val(last'.args.priority) \notin PRIORITIES)) =>
            /\ last'.result = "ok"
            /\ \A n \in Range(Collapse(last'.args.tags, 1, <<>>)) :
                  \E g \in DOMAIN tags' :
                      /\ tags'[g].name = n
                      /\ <<last'.args.task_id, g>> \in task_tags'
      ]_vars

---------------------------------------------------------------------------
(* Properties of stats.                                                    *)

(* The day of the clock value t, counted from the first day of the model.  *)
DayOf(t) == t \div SecondsPerDay

(* Day d is the first day of a period: today for day, a Monday for week,   *)
(* day 1 of a month for month, January 1 for year.                         *)
StartsPeriod(period, d, today) ==
    LET date == FromOrdinal(ToOrdinal(Epoch.month, Epoch.day) + d)
    IN  CASE period = "day" -> d = today
          [] period = "week" -> (Epoch.weekday + d) % 7 = 0
          [] period = "month" -> date.day = 1
          [] period = "year" -> date.day = 1 /\ date.month = 1

(* The first second of the period that holds the clock value t: midnight   *)
(* of the latest day up to today that starts a period.                     *)
Boundary(period, t) ==
    LET today == DayOf(t)
        first == CHOOSE d \in (1 - ToOrdinal(Epoch.month, Epoch.day))..today :
                     /\ StartsPeriod(period, d, today)
                     /\ \A later \in (d + 1)..today :
                           ~ StartsPeriod(period, later, today)
    IN  first * SecondsPerDay

(* The tasks created in the period that holds the clock value t.           *)
CreatedIn(period, t) ==
    {task \in DOMAIN tasks : tasks[task].created_at >= Boundary(period, t)}

(* C19: a stats run for a period in which no task was created completes    *)
(* without error and reports a completion rate of 0; so does every grouped *)
(* rate of the detailed tables.                                            *)
C19_EmptyPeriodRateZero ==
    (/\ last.op = "stats"
     /\ last.args.period \in PERIODS
     /\ CreatedIn(last.args.period, now) = {}) =>
        /\ last.result = "ok"
        /\ last.rows[1].total_tasks = 0
        /\ last.rows[1].completion_rate = Some(0)

(* C20: the overview of a period of PERIODS counts exactly the tasks       *)
(* created at or after the first second of the period (a task of yesterday *)
(* is left out for day, and counted for week when yesterday is in the same *)
(* week); any other period is a ValidationError; stats changes no row.     *)
C20_PeriodBoundary ==
    /\ [](last.op = "stats" =>
             IF last.args.period \in PERIODS
             THEN /\ last.result = "ok"
                  /\ last.rows[1].total_tasks =
                         Cardinality(CreatedIn(last.args.period, now))
             ELSE last.result = "ValidationError")
    /\ [][last'.op = "stats" /\ last' # last => store' = store]_vars

---------------------------------------------------------------------------
(* Properties of the pomodoro timer.                                       *)

(* A run that nothing cancels: one block of the phases it goes through.    *)
Pattern ==
    <<"work", "short", "work", "short", "work", "short", "work", "long">>

IsPrefix(s, t) == Len(s) <= Len(t) /\ \A i \in DOMAIN s : s[i] = t[i]

(* stop() has been called or Ctrl+C has been pressed.                      *)
Cancelled == stop_called \/ pc = "interrupted"

(* C21: after a work period the timer takes the short break when fewer     *)
(* than total_sessions work periods of the round are done, and the long    *)
(* break otherwise, after which the counter is 0 again; the phases of a    *)
(* run are the repetition of work, short, work, short, work, short, work,  *)
(* long; and when nothing cancels the run a break is followed by work.     *)
C21_PhaseOrder ==
    /\ [](IsPrefix(phases, Pattern))
    /\ [][ /\ (pc = "work" /\ pc' \in PHASES \ {"work"}) =>
                  pc' = IF current_session < total_sessions THEN "short" ELSE "long"
           /\ (pc = "long" /\ pc' \notin {"long", "interrupted"}) =>
                  (pc' = "head" /\ current_session' = 0)
           /\ (pc = "short" /\ pc' \notin {"short", "interrupted"}) =>
                  (pc' = "head" /\ current_session' = current_session)
           /\ (pc = "head" /\ pc' # "head" /\ ~Cancelled' /\ phases # <<>>) =>
                  (pc' = "work" /\ phases[Len(phases)] \in {"short", "long"})
         ]_vars
    /\ [](pc \in {"short", "long"} => <>(pc = "work" \/ Cancelled))

(* The long break that ends a round has run to its end.                    *)
C21_Witness ==
    /\ pc = "long"
    /\ phases = Pattern
    /\ Finished
    /\ ~stop_called

(* The cancellation stands: Ctrl+C was pressed, or stop() was called and   *)
(* the flag it cleared is still clear.                                     *)
CancelStands == pc = "interrupted" \/ (stop_called /\ ~is_running)

(* C22: once stop() has been called or Ctrl+C pressed, at whatever tick of *)
(* whatever phase, the timer halts where it is: it begins no further       *)
(* phase, and it comes to a halt.                                          *)
C22_CancelHalts ==
    /\ [][CancelStands => phases' = phases]_vars
    /\ [](CancelStands => <>(pc \in {"returned", "interrupted"}))
(* C23: as long as neither stop() nor Ctrl+C has come, start_session has   *)
(* not returned; after the long break that ends a round it goes on to the  *)
(* work period of a new round, again and again.                            *)
C23_NeverReturns ==
    /\ [](~Cancelled => pc # "returned")
    /\ [][(pc = "head" /\ ~Cancelled' /\ pc' # "head") => pc' = "work"]_vars
    /\ []<>(Cancelled \/ pc = "idle" \/ (pc = "long" /\ Finished))
    /\ []((pc = "long" /\ Finished) =>
              <>(Cancelled \/ (pc = "work" /\ current_session = 1)))

(* The long break of a round is over and the test of the loop comes next.  *)
C23_Witness ==
    /\ pc = "head"
    /\ phases = Pattern
    /\ current_session = 0
    /\ is_running
    /\ ~Cancelled

(* C30: a stop() called from another thread at any moment after            *)
(* start_session was called is not lost: the timer begins no work period   *)
(* after it, and start_session comes to its end.                           *)
C30_StopNotLost ==
    /\ [][stop_called => ~(pc # "work" /\ pc' = "work")]_vars
    /\ [](stop_called => <>(pc \in {"returned", "interrupted"}))

---------------------------------------------------------------------------
(* Properties of the time command.                                         *)

(* The step is a run of time --add-task-id --add-duration that succeeded.  *)
TimeAdded ==
    /\ last'.op = "time_add"
    /\ last'.result = "ok"
    /\ last' # last \/ time_entries' # time_entries

(* C24: a manual entry for an existing task adds exactly one row to        *)
(* time_entries; the row is closed, its duration is minutes * 60 seconds   *)
(* and its note is "Manual entry"; every other row stays as it was, so no  *)
(* running session is opened or closed.                                    *)
C24_ManualEntry ==
    [][ TimeAdded =>
            /\ last'.args.add_task_id \in DOMAIN tasks
            /\ \E e \in DOMAIN time_entries' \ DOMAIN time_entries :
                  /\ DOMAIN time_entries' = DOMAIN time_entries \cup {e}
                  /\ time_entries'[e].task_id = last'.args.add_task_id
                  /\ time_entries'[e].duration = Some(last'.args.add_duration * 60)
                  /\ time_entries'[e].notes = Some("Manual entry")
                  /\ time_entries'[e].start_time = now
            /\ \A e \in DOMAIN time_entries : time_entries'[e] = time_entries[e]
            /\ UNCHANGED <<tasks, tags, task_tags>>
      ]_vars

(* A manual entry of 30 minutes was added while a session was running.     *)
C24_Witness ==
    /\ last.op = "time_add"
    /\ last.result = "ok"
    /\ last.args.add_duration = 30
    /\ \E e \in DOMAIN time_entries :
          /\ time_entries[e].duration = Some(1800)
          /\ time_entries[e].notes = Some("Manual entry")
    /\ \E e \in DOMAIN time_entries : time_entries[e].duration = NULL

(* The step is a run of time --list or time --export.                      *)
TimeListed == last' # last /\ last'.op \in {"time_list", "time_export"}

(* C25: the listing of time --list and the file of time --export hold      *)
(* every row of time_entries exactly once, whatever was done before, the   *)
(* deletion of a task that has entries included.                           *)
C25_ListsEveryEntry ==
    [][ TimeListed =>
            /\ Len(last'.rows) = Cardinality(DOMAIN time_entries)
            /\ last'.op = "time_list" =>
                  \A e \in DOMAIN time_entries :
                      Cardinality({i \in DOMAIN last'.rows : last'.rows[i].id = e}) = 1
      ]_vars

(* C26: time --list shows an entry as In Progress exactly when its         *)
(* duration is NULL; a closed entry of duration 0 is shown as closed.      *)
C26_InProgressIffNull ==
    [][ (last' # last /\ last'.op = "time_list") =>
            \A i \in DOMAIN last'.rows :
                (last'.rows[i].duration = <<"In Progress">>)
                    <=> (time_entries[last'.rows[i].id].duration = NULL)
      ]_vars

(* C27: an entry whose duration is not NULL is never changed again, by     *)
(* stop or by anything else; and a stop that finds only closed entries,    *)
(* as after a manual entry with no start, reports NoActiveSession.         *)
C27_ClosedIsFinal ==
    /\ [][ \A e \in DOMAIN time_entries :
              time_entries[e].duration # NULL =>
                  (e \in DOMAIN time_entries' /\ time_entries'[e] = time_entries[e])
         ]_vars
    /\ []( ( /\ last.op = "stop"
             /\ time_entries # <<>>
             /\ \A e \in DOMAIN time_entries : time_entries[e].duration # NULL )
           => last.result = "NoActiveSession" )

---------------------------------------------------------------------------
(* More properties of list and of the ids of tasks.                        *)

(* C28: the tag filter of list takes the requested names as a set: a name  *)
(* given twice or an empty name changes nothing, and list prints exactly   *)
(* the pending tasks that carry every distinct name requested.             *)
C28_TagFilterIsSet ==
    (last.op = "list" /\ last.result \in {"ok", "Empty"} /\ Given(last.args.tags)) =>
        LET r == [i \in DOMAIN last.args.tags |-> Strip(last.args.tags[i])]
            wanted == Range(r) \ {""}
        IN  /\ Listed = {t \in DOMAIN tasks :
                            /\ tasks[t].status = "pending"
                            /\ \A n \in wanted : Carries(t, n)}
            /\ ListWhere(last.args) = ListWhere(TagQuery(Collapse(last.args.tags, 1, <<>>)))
                                          \cap {t \in DOMAIN tasks : tasks[t].status = "pending"}

(* The ids of tasks that rows of time_entries and task_tags refer to.      *)
ReferencedTasks ==
    {time_entries[e].task_id : e \in DOMAIN time_entries} \cup {tt[1] : tt \in task_tags}

(* C29: the id given to a new task is larger than the id of every task     *)
(* there is or ever was, deleted ones included, so no row of time_entries  *)
(* or task_tags left behind by a deleted task refers to the new task.      *)
C29_IdsNeverReused ==
    [][ \A t \in DOMAIN tasks' \ DOMAIN tasks :
            /\ \A u \in DOMAIN tasks : u < t
            /\ \A u \in ReferencedTasks : u < t
            /\ t > sqlite_sequence.tasks
            /\ \A e \in DOMAIN time_entries : time_entries'[e].task_id # t
            /\ \A tt \in task_tags' : tt[1] = t => tt \notin task_tags
      ]_vars

(* A task was added after the deletion of a task that left an entry and a  *)
(* link behind.                                                            *)
C29_Witness ==
    /\ last.op = "add"
    /\ last.result = "ok"
    /\ \E e \in DOMAIN time_entries, tt \in task_tags, t \in DOMAIN tasks :
          /\ time_entries[e].task_id \notin DOMAIN tasks
          /\ tt[1] \notin DOMAIN tasks
          /\ t > time_entries[e].task_id
          /\ t > tt[1]
          /\ tasks[t].created_at = now

====
